---- MODULE Spec2Model ----
(***************************************************************************)
(* A model of the concurrency core of vscode-aspell:                       *)
(*   - Lock (src/src/lock.ts), the FIFO mutual-exclusion gate;             *)
(*   - Debouncer (src/unnamed/part_000), the coalescing trigger, with its   *)
(*     caller triggerSpellcheckIfEnabled (src/src/extension.ts);           *)
(*   - AwaitLine (src/src/extension.ts), the line demultiplexer;           *)
(*   - checkSpelling / triggerSpellcheck / trimCache, the protocol client  *)
(*     and its classification cache.                                       *)
(*                                                                         *)
(* Strings are sequences of one-character strings.  JavaScript runs one    *)
(* callback at a time: every action below is the code that runs between    *)
(* two suspension points (an await, a timer, a stream event).              *)
(***************************************************************************)
EXTENDS Integers, Sequences, FiniteSets, TLC

VARIABLES
    \* Lock (aspellLock)
    locked,         \* Lock.locked
    waiters,        \* Lock.waiters: the callers whose resolve is queued
    timers,         \* callbacks handed to setTimeout(cb, 0), oldest first
    \* callers of lock(): the generic callers of SpecLock, the checkSpelling
    \* calls of Spec
    pc,             \* where each caller is
    lockOrder,      \* history: callers in the order of their lock() calls
    enterOrder,     \* history: callers in the order they resumed after lock()
    late,           \* history: callers whose lock() came during a handoff
    \* AwaitLine (aspellLines) and the 'data' listener of fromStream
    awaiters,       \* AwaitLine.awaiters: the getLine() callers suspended
    backlog,        \* AwaitLine.backlog: lines split out and not yet claimed
    got,            \* the resolved getLine() promises: requester -> line
    dataBacklog,    \* the closure variable dataBacklog of fromStream
    \* the stream seen by SpecLines
    received,       \* history: all the text the 'data' events have carried
    gets,           \* history: the number of getLine() calls made
    atOnce,         \* history: the requesters resolved inside their getLine()
    \* the classification cache and the diagnostics
    knownGood,      \* the keys of knownGood, in Object.keys order
    knownBad,       \* the entries of knownBad, in Object.keys order
    spellDiagnostics, \* document -> the words flagged by the last set()
    evicted,        \* history: trimCache has deleted an entry
    \* the checkSpelling calls and the aspell process
    call,           \* per call: document, matches, words, ret, newGoods; and
                    \* history: cached, origin, afterClose (made after 'close')
    stdin,          \* text written to aspell.stdin and not yet read by aspell
    stdout,         \* text written by aspell and not yet carried by a 'data' event
    writes,         \* history: per call, the writes to aspell.stdin
    unlocks,        \* history: per call, the calls of aspellLock.unlock()
    termsRead,      \* history: the empty lines consumed by checkSpelling
    answered,       \* history: the request lines aspell has answered
    closed,         \* the aspell process has exited
    log,            \* history: the statements of activate() run so far, and
                    \* a "batch" for each request line written
    owners,         \* history: for each line aspell has printed and
                    \* checkSpelling has not consumed, the call whose request
                    \* it answers (0 for the banner)
    \* the Debouncer (documentDebouncer) and triggerSpellcheckIfEnabled
    waiting,        \* Debouncer.waiting
    bounceTimers,   \* the pending setTimeout(..., bounceTime) callbacks, each
                    \* with the document of the call awaiting its promise
    resumed,        \* the calls whose promise is resolved, not yet continued
    lastDocumentURI,
    enabledAllDocuments,
    enabledDocuments,
    spellchecks,    \* history: per document, the calls of triggerSpellcheck
    events,         \* history: the trigger events so far
    toggles,        \* history: the toggle commands so far
    drops,          \* history: <<document dropped, document of the pending cycle>>
    window,         \* history: the document of the open cool-down window
    startedInWindow,\* history: spellchecks started for it inside the window
    queueCalls      \* history: the number of queue_or_bust() calls

lockVars == <<locked, waiters, timers>>
procVars == <<pc, lockOrder, enterOrder, late>>
lineVars == <<awaiters, backlog, got, dataBacklog>>
streamVars == <<received, gets, atOnce>>
cacheVars == <<knownGood, knownBad, spellDiagnostics, evicted>>
callVars == <<call, stdin, stdout, writes, unlocks, termsRead, answered, closed, log, owners>>
debVars == <<waiting, bounceTimers, resumed, lastDocumentURI, enabledAllDocuments,
             enabledDocuments, spellchecks, events, toggles, drops, window,
             startedInWindow, queueCalls>>
vars == <<lockVars, procVars, lineVars, streamVars, cacheVars, callVars, debVars>>

\* bounds of the model
NProcs == 5
MaxEvents == 6
MaxToggles == 2
MaxStream == 6
MaxChunk == 3
MaxGets == 3

Procs == 1..NProcs
Docs == {"d1", "d2"}
NL == "\n"

------------------------------------------------------------------------------
(* Lock: src/src/lock.ts *)

\* a plausible bug: lock() grants the lock whether or not it is held
lock_barges(c) ==
    /\ locked' = TRUE
    /\ UNCHANGED waiters
    /\ pc' = [pc EXCEPT ![c] = "granted"]
    /\ lockOrder' = Append(lockOrder, c)
    /\ late' = IF timers # <<>> THEN late \cup {c} ELSE late

\* lock(): the promise executor runs at once; the caller resumes later, when
\* the promise is resolved ("granted") and its continuation is run.
lock(c) ==
    /\ IF locked
         THEN /\ waiters' = Append(waiters, c)
              /\ UNCHANGED locked
              /\ pc' = [pc EXCEPT ![c] = "waiting"]
         ELSE /\ locked' = TRUE
              /\ UNCHANGED waiters
              /\ pc' = [pc EXCEPT ![c] = "granted"]
    /\ lockOrder' = Append(lockOrder, c)
    /\ late' = IF timers # <<>> THEN late \cup {c} ELSE late

\* a plausible bug: the handoff also marks the lock free
unlock_frees ==
    IF Len(waiters) > 0
      THEN /\ waiters' = Tail(waiters)
           /\ timers' = Append(timers, Head(waiters))
           /\ locked' = FALSE
      ELSE /\ locked' = FALSE
           /\ UNCHANGED <<waiters, timers>>

\* a plausible bug: the newest waiter is handed the lock (pop instead of shift)
unlock_pops ==
    IF Len(waiters) > 0
      THEN /\ waiters' = SubSeq(waiters, 1, Len(waiters) - 1)
           /\ timers' = Append(timers, waiters[Len(waiters)])
           /\ UNCHANGED locked
      ELSE /\ locked' = FALSE
           /\ UNCHANGED <<waiters, timers>>

\* a plausible bug: the waiter is taken off the queue and never called back
unlock_drops ==
    IF Len(waiters) > 0
      THEN /\ waiters' = Tail(waiters)
           /\ UNCHANGED <<locked, timers>>
      ELSE /\ locked' = FALSE
           /\ UNCHANGED <<waiters, timers>>

\* a plausible bug: with no waiter the lock is not marked free
unlock_stays ==
    IF Len(waiters) > 0
      THEN /\ waiters' = Tail(waiters)
           /\ timers' = Append(timers, Head(waiters))
           /\ UNCHANGED locked
      ELSE UNCHANGED <<locked, waiters, timers>>

\* unlock(): hand the lock to the oldest waiter through setTimeout(cb, 0),
\* locked staying true, or mark the lock free.
unlock ==
    IF Len(waiters) > 0
      THEN /\ waiters' = Tail(waiters)
           /\ timers' = Append(timers, Head(waiters))
           /\ UNCHANGED locked
      ELSE /\ locked' = FALSE
           /\ UNCHANGED <<waiters, timers>>

\* the event loop runs the oldest setTimeout(cb, 0) callback: cb is the
\* waiter's resolve
TimerFire ==
    /\ timers # <<>>
    /\ timers' = Tail(timers)
    /\ pc' = [pc EXCEPT ![Head(timers)] = "granted"]
    /\ UNCHANGED <<locked, waiters, lockOrder, enterOrder, late>>
    /\ UNCHANGED <<lineVars, streamVars, debVars, cacheVars, callVars>>

------------------------------------------------------------------------------
(* Debouncer: src/unnamed/part_000 31-52 (the ./lock module that            *)
(* extension.ts imports Debouncer from)                                     *)

\* new Debouncer(250); no document seen, nothing enabled
DebInit ==
    /\ waiting = FALSE
    /\ bounceTimers = <<>>
    /\ resumed = <<>>
    /\ lastDocumentURI = "undefined"
    /\ enabledAllDocuments = FALSE
    /\ enabledDocuments = {}
    /\ spellchecks = [d \in Docs |-> 0]
    /\ events = 0
    /\ toggles = 0
    /\ drops = {}
    /\ window = "none"
    /\ startedInWindow = 0
    /\ queueCalls = 0

\* a plausible bug: queue_or_bust() does not look at waiting
queue_or_bust_always(cont) ==
    /\ queueCalls' = queueCalls + 1
    /\ waiting' = TRUE
    /\ bounceTimers' = Append(bounceTimers, cont)

\* queue_or_bust(), called by cont: null, changing nothing, when waiting;
\* else waiting becomes true, a timer is set, and cont awaits the promise
queue_or_bust(cont) ==
    /\ queueCalls' = queueCalls + 1
    /\ IF waiting
         THEN UNCHANGED <<waiting, bounceTimers>>
         ELSE /\ waiting' = TRUE
              /\ bounceTimers' = Append(bounceTimers, cont)

isUriEnabled(uri) == enabledAllDocuments \/ uri \in enabledDocuments

------------------------------------------------------------------------------
(* AwaitLine: src/src/extension.ts 249-290.  The operations are functions   *)
(* of the object's state al = [awaiters, backlog, got, dataBacklog].        *)

AL == [awaiters |-> awaiters, backlog |-> backlog, got |-> got,
       dataBacklog |-> dataBacklog]

SetAL(al) ==
    /\ awaiters' = al.awaiters
    /\ backlog' = al.backlog
    /\ got' = al.got
    /\ dataBacklog' = al.dataBacklog

\* new AwaitLine(), and  let dataBacklog = ""
LinesInit ==
    /\ awaiters = <<>>
    /\ backlog = <<>>
    /\ got = <<>>
    /\ dataBacklog = <<>>

\* String.prototype.indexOf for a one-character needle: the 0-based index of
\* its first occurrence, or -1
indexOf(s, ch) ==
    IF \E i \in 1..Len(s) : s[i] = ch
      THEN (CHOOSE i \in 1..Len(s) : s[i] = ch /\ \A j \in 1..(i - 1) : s[j] # ch) - 1
      ELSE -1

\* String.prototype.substring(from, to) and substring(from), 0-based
substring(s, from, to) == SubSeq(s, from + 1, to)
substringFrom(s, from) == SubSeq(s, from + 1, Len(s))

\* a plausible bug: feedLine always queues the line, whoever is waiting
feedLine_queues(al, data) == [al EXCEPT !.backlog = Append(@, data)]

\* feedLine(data): resolve the oldest suspended requester, or keep the line
feedLine(al, data) ==
    IF Len(al.awaiters) > 0
      THEN [al EXCEPT !.awaiters = Tail(@),
                      !.got = (Head(al.awaiters) :> data) @@ @]
      ELSE [al EXCEPT !.backlog = Append(@, data)]

\* the while loop of the 'data' listener: split complete lines off the front
RECURSIVE splitLines(_)
splitLines(al) ==
    LET i == indexOf(al.dataBacklog, NL)
    IN  IF i = -1
          THEN al
          ELSE splitLines([feedLine(al, substring(al.dataBacklog, 0, i))
                             EXCEPT !.dataBacklog = substringFrom(al.dataBacklog, i + 1)])

\* a plausible bug: the chunk replaces the text kept from earlier chunks
onData_forgets(al, data) == splitLines([al EXCEPT !.dataBacklog = data])

\* the 'data' listener of fromStream
onData(al, data) == splitLines([al EXCEPT !.dataBacklog = @ \o data])

\* a plausible bug: the newest backlog line is returned (pop instead of shift)
getLine_pops(al, k) ==
    IF Len(al.backlog) > 0
      THEN [al EXCEPT !.got = (k :> al.backlog[Len(al.backlog)]) @@ @,
                      !.backlog = SubSeq(@, 1, Len(@) - 1)]
      ELSE [al EXCEPT !.awaiters = Append(@, k)]

\* a plausible variant: at the end of the stream getLine() resolves with the
\* empty line
getLine_eof(al, k) ==
    IF Len(al.backlog) > 0
      THEN [al EXCEPT !.got = (k :> Head(al.backlog)) @@ @,
                      !.backlog = Tail(@)]
      ELSE IF closed /\ stdout = <<>>
             THEN [al EXCEPT !.got = (k :> <<>>) @@ @]
             ELSE [al EXCEPT !.awaiters = Append(@, k)]

\* getLine() by requester k: the oldest backlog line at once, or suspend
getLine(al, k) ==
    IF Len(al.backlog) > 0
      THEN [al EXCEPT !.got = (k :> Head(al.backlog)) @@ @,
                      !.backlog = Tail(@)]
      ELSE [al EXCEPT !.awaiters = Append(@, k)]

------------------------------------------------------------------------------
(* Strings as the code handles them *)

\* Array.prototype.join(" ")
RECURSIVE join(_)
join(ws) ==
    IF Len(ws) = 0 THEN <<>>
    ELSE IF Len(ws) = 1 THEN ws[1]
    ELSE ws[1] \o <<" ">> \o join(Tail(ws))

\* String.prototype.split(" "): the pieces between the separators, empty
\* pieces included
RECURSIVE split(_)
split(s) ==
    LET i == indexOf(s, " ")
    IN  IF i = -1 THEN <<s>>
        ELSE <<substring(s, 0, i)>> \o split(substringFrom(s, i + 1))

Letters == {"a", "b", "c", "t", "e", "h"}
Digits == {"0", "1", "2"}

\* the length of the longest run of characters of class starting at s[i]
RECURSIVE run(_, _, _)
run(s, i, class) ==
    IF i <= Len(s) /\ s[i] \in class THEN 1 + run(s, i + 1, class) ELSE 0

\* aspellRegexp = /^[\&#] ([a-zA-Z]+) ([0-9]+) ([0-9]+): (.+)$/ : the match
\* as <<[word, rest]>>, or <<>> when the line does not match
regexpMatch(s) ==
    LET n1 == run(s, 3, Letters)
        p == 3 + n1
        n2 == run(s, p + 1, Digits)
        q == p + 1 + n2
        n3 == run(s, q + 1, Digits)
        r == q + 1 + n3
    IN  IF /\ Len(s) >= r + 2
           /\ s[1] \in {"&", "#"}
           /\ s[2] = " "
           /\ n1 >= 1
           /\ s[p] = " "
           /\ n2 >= 1
           /\ s[q] = " "
           /\ n3 >= 1
           /\ s[r] = ":"
           /\ s[r + 1] = " "
           /\ \A i \in (r + 2)..Len(s) : s[i] # NL
          THEN <<[word |-> SubSeq(s, 3, p - 1), rest |-> SubSeq(s, r + 2, Len(s))]>>
          ELSE <<>>

\* spellCheckLine(chunk): <<error>>, or <<>> for null
spellCheckLine(chunk) ==
    IF Len(chunk) < 1 THEN <<>>
    ELSE LET match == regexpMatch(chunk)
         IN  IF match = <<>> THEN <<>>
             ELSE <<[word |-> match[1].word, suggestions |-> split(match[1].rest)]>>

------------------------------------------------------------------------------
(* The classification cache: src/src/extension.ts 39-40, 77-82, 87-99 *)

\* the cache size trimCache trims to: 10000 in the source, scaled down so
\* that a few words overflow it
CACHE_LEN_GOAL == 1

Range(f) == {f[i] : i \in DOMAIN f}
BadWords(kb) == {kb[i].word : i \in DOMAIN kb}

\* the words without their duplicates, first occurrences in order:
\* Object.keys(arrayToHash(words))
RECURSIVE hashKeys(_)
hashKeys(ws) ==
    IF Len(ws) = 0 THEN <<>>
    ELSE LET front == hashKeys(SubSeq(ws, 1, Len(ws) - 1))
             w == ws[Len(ws)]
         IN  IF w \in Range(front) THEN front ELSE Append(front, w)

\* delete hash[w]
hashDelete(ks, w) == SelectSeq(ks, LAMBDA x : x # w)

\* Object.assign(knownGood, newGoods)
assignGood(kg, newGoods) == hashKeys(kg \o newGoods)

\* knownBad[error.word] = error
setBad(kb, error) ==
    IF error.word \in BadWords(kb)
      THEN [i \in DOMAIN kb |-> IF kb[i].word = error.word THEN error ELSE kb[i]]
      ELSE Append(kb, error)

\* knownBad[word], as <<entry>> or <<>> for undefined
getBad(kb, word) == SelectSeq(kb, LAMBDA e : e.word = word)

\* trimOneCache(cache): delete the first keys.length - CACHE_LEN_GOAL keys
trimOneCache(cache) ==
    IF Len(cache) > CACHE_LEN_GOAL
      THEN SubSeq(cache, Len(cache) - CACHE_LEN_GOAL + 1, Len(cache))
      ELSE cache

\* trimCache()
trimCache ==
    /\ knownGood' = trimOneCache(knownGood)
    /\ knownBad' = trimOneCache(knownBad)
    /\ evicted' = (evicted \/ Len(knownGood) > CACHE_LEN_GOAL \/ Len(knownBad) > CACHE_LEN_GOAL)

CacheInit ==
    /\ knownGood = <<>>
    /\ knownBad = <<>>
    /\ spellDiagnostics = <<>>
    /\ evicted = FALSE

------------------------------------------------------------------------------
(* SpecLines: any text arrives in any chunks, interleaved with getLine()    *)
(* calls; the k-th call is requester k.                                     *)

StreamInit ==
    /\ received = <<>>
    /\ gets = 0
    /\ atOnce = {}

\* no checkSpelling call yet, no aspell process
CallInit ==
    /\ call = <<>>
    /\ stdin = <<>>
    /\ stdout = <<>>
    /\ writes = <<>>
    /\ unlocks = <<>>
    /\ termsRead = 0
    /\ answered = 0
    /\ closed = FALSE
    /\ log = <<>>
    /\ owners = <<>>

Alphabet == {"a", NL}

RECURSIVE Strings(_)
Strings(n) ==
    IF n = 0 THEN {<<>>}
    ELSE LET S == Strings(n - 1)
         IN  S \cup {Append(s, ch) : s \in {t \in S : Len(t) = n - 1}, ch \in Alphabet}

Chunks == Strings(MaxChunk) \ {<<>>}

InitLines ==
    /\ locked = FALSE
    /\ waiters = <<>>
    /\ timers = <<>>
    /\ pc = <<>>
    /\ lockOrder = <<>>
    /\ enterOrder = <<>>
    /\ late = {}
    /\ LinesInit
    /\ StreamInit
    /\ CacheInit
    /\ CallInit
    /\ DebInit

\* a 'data' event carrying chunk
Data(chunk) ==
    /\ Len(received) + Len(chunk) <= MaxStream
    /\ SetAL(onData(AL, chunk))
    /\ received' = received \o chunk
    /\ UNCHANGED <<gets, atOnce, lockVars, procVars, debVars, cacheVars, callVars>>

\* a getLine() call
GetLine ==
    /\ gets < MaxGets
    /\ SetAL(getLine(AL, gets + 1))
    /\ gets' = gets + 1
    /\ atOnce' = IF backlog # <<>> THEN atOnce \cup {gets + 1} ELSE atOnce
    /\ UNCHANGED <<received, lockVars, procVars, debVars, cacheVars, callVars>>

NextLines ==
    \/ \E chunk \in Chunks : Data(chunk)
    \/ GetLine

SpecLines == InitLines /\ [][NextLines]_vars

------------------------------------------------------------------------------
(* Claims about AwaitLine *)

\* the newline-terminated lines of a text, in order
RECURSIVE LinesOf(_)
LinesOf(s) ==
    IF \A i \in 1..Len(s) : s[i] # NL
      THEN <<>>
      ELSE LET n == CHOOSE i \in 1..Len(s) : s[i] = NL /\ \A j \in 1..(i - 1) : s[j] # NL
           IN  <<SubSeq(s, 1, n - 1)>> \o LinesOf(SubSeq(s, n + 1, Len(s)))

Min(a, b) == IF a < b THEN a ELSE b

\* every line goes to exactly one place: the k-th line to the k-th getLine()
\* call if there is one, else to the backlog, in stream order
C9_State ==
    LET L == LinesOf(received)
    IN  /\ DOMAIN got = 1..Min(gets, Len(L))
        /\ \A k \in DOMAIN got : got[k] = L[k]
        /\ backlog = SubSeq(L, gets + 1, Len(L))
        /\ awaiters = [i \in 1..(gets - Min(gets, Len(L))) |-> Len(L) + i]

\* a getLine() call made while the backlog is non-empty is resolved in the
\* call itself, with the oldest backlog line
C9_Step ==
    (gets' = gets + 1 /\ backlog # <<>>) =>
        /\ (gets + 1) \in DOMAIN got'
        /\ got'[gets + 1] = Head(backlog)
        /\ backlog' = Tail(backlog)
        /\ awaiters' = awaiters

\* C9: ordering and exactly-once delivery of the line demultiplexer: every
\* newline-terminated line is delivered to exactly one getLine() caller, in
\* stream order, the k-th call receiving the k-th line, and a call that finds
\* a backlog resolves at once with its oldest line.
C9_OrderedExactlyOnce == [](C9_State) /\ [][C9_Step]_vars

\* C9 witness: one requester was resolved from the backlog, a later one by an
\* arriving line, and a line is still in the backlog
C9_Witness ==
    /\ \E k \in atOnce : Len(got[k]) > 0
    /\ \E k \in DOMAIN got : k \notin atOnce
    /\ backlog # <<>>

\* the lines delivered so far, in the order of the requests
Delivered == [k \in 1..Len(got) |-> got[k]]

\* the state the listener reaches when the whole text arrives as one chunk
\* and nobody has asked for a line
OneChunk ==
    onData([awaiters |-> <<>>, backlog |-> <<>>, got |-> <<>>, dataBacklog |-> <<>>],
           received)

\* C10: chunk-boundary independence: whatever the chunks and the interleaving
\* with getLine(), the lines delivered and kept are those of the text arriving
\* in one chunk, and the text after the last newline stays undelivered.
C10_ChunkIndependence ==
    /\ Delivered \o backlog = OneChunk.backlog
    /\ dataBacklog = OneChunk.dataBacklog
    /\ \A i \in 1..Len(dataBacklog) : dataBacklog[i] # NL

\* C10 witness: a line whose text arrived in more than one chunk has been
\* delivered while text after the last newline is held back
C10_Witness ==
    /\ \E k \in DOMAIN got : Len(got[k]) > MaxChunk
    /\ dataBacklog # <<>>

\* C29: AwaitLine queue exclusion: in every reachable state the backlog of
\* undelivered lines and the queue of suspended awaiters are not both
\* non-empty.
C29_QueueExclusion == ~(backlog # <<>> /\ awaiters # <<>>)

\* C29 witness: a requester is suspended with the backlog empty, after an
\* earlier requester was served from a non-empty backlog
C29_Witness ==
    /\ awaiters # <<>>
    /\ backlog = <<>>
    /\ atOnce # {}

------------------------------------------------------------------------------
(* SpecLock: NProcs callers, each  await lock(); critical section; unlock() *)

InitLock ==
    /\ locked = FALSE
    /\ waiters = <<>>
    /\ timers = <<>>
    /\ pc = [p \in Procs |-> "idle"]
    /\ lockOrder = <<>>
    /\ enterOrder = <<>>
    /\ late = {}
    /\ LinesInit
    /\ StreamInit
    /\ CacheInit
    /\ CallInit
    /\ DebInit

\* the next caller calls lock()
Acquire(p) ==
    /\ p = Len(lockOrder) + 1
    /\ pc[p] = "idle"
    /\ lock(p)
    /\ UNCHANGED <<timers, enterOrder, lineVars, streamVars, debVars, cacheVars, callVars>>

\* the continuation of  await lock()  runs: the caller is in its critical section
Enter(p) ==
    /\ pc[p] = "granted"
    /\ pc' = [pc EXCEPT ![p] = "cs"]
    /\ enterOrder' = Append(enterOrder, p)
    /\ UNCHANGED <<lockVars, lockOrder, late, lineVars, streamVars, debVars, cacheVars, callVars>>

\* the holder calls unlock(), once
Release(p) ==
    /\ pc[p] = "cs"
    /\ unlock
    /\ pc' = [pc EXCEPT ![p] = "done"]
    /\ UNCHANGED <<lockOrder, enterOrder, late, lineVars, streamVars, debVars, cacheVars, callVars>>

NextLock ==
    \/ \E p \in Procs : Acquire(p)
    \/ \E p \in Procs : Enter(p)
    \/ \E p \in Procs : Release(p)
    \/ TimerFire

SpecLock == InitLock /\ [][NextLock]_vars

\* SpecLockLive: the same callers under a fair event loop: a pending
\* setTimeout callback is run, a resolved promise's continuation is run, and
\* a caller in its critical section goes on to call unlock()
SpecLockLive ==
    /\ SpecLock
    /\ WF_vars(TimerFire)
    /\ \A p \in Procs : WF_vars(Enter(p)) /\ WF_vars(Release(p))

------------------------------------------------------------------------------
(* Claims about Lock *)

InCS == {p \in DOMAIN pc : pc[p] = "cs"}

\* C1: mutual exclusion: in every reachable state at most one caller is inside
\* its critical section (resumed from lock(), unlock() not yet called).
C1_MutualExclusion == Cardinality(InCS) <= 1

\* C1 witness: a caller is in its critical section while another one waits in
\* the queue and a third has already been through.
C1_Witness ==
    /\ Cardinality(InCS) = 1
    /\ waiters # <<>>
    /\ \E p \in DOMAIN pc : pc[p] = "done"

IsPrefix(s, t) == Len(s) <= Len(t) /\ SubSeq(t, 1, Len(s)) = s

\* C2: FIFO without barging: callers enter the critical section in the order
\* of their lock() calls, also those whose lock() comes between an unlock()
\* and the resumption of the waiter it handed the lock to.
C2_FifoNoBarging == IsPrefix(enterOrder, lockOrder)

\* C2 witness: a caller that called lock() during a handoff has entered, as
\* has the waiter of that handoff before it.
C2_Witness ==
    \E p \in late : pc[p] = "cs" /\ Len(enterOrder) >= 3

\* C16: lock liveness: when every holder goes on to call unlock() and the
\* deferred handoff callbacks are run, every caller that has called lock()
\* is eventually resumed as the holder.
C16_LockLiveness ==
    \A p \in Procs : (pc[p] \in {"waiting", "granted"}) ~> (pc[p] = "cs")

\* C16 witness: every caller has been resumed as the holder, among them
\* callers that were queued behind a handoff
C16_Witness ==
    /\ Len(enterOrder) = NProcs
    /\ late # {}
    /\ \A p \in Procs : pc[p] \in {"cs", "done"}

\* the step in which holder p calls unlock()
UnlocksNow(p) == pc[p] = "cs" /\ pc'[p] = "done"

\* C21: asynchronous handoff: unlock() with waiters removes exactly the head
\* waiter, leaves locked true and defers that waiter's resumption to a timer
\* callback, so the waiter still waits when unlock() returns; unlock() with
\* no waiter sets locked false.  A waiter is resumed only by the timer
\* callback, in a step in which no holder calls unlock().
C21_AsyncHandoff ==
    [][/\ \A p \in Procs :
             UnlocksNow(p) =>
                 IF waiters # <<>>
                   THEN /\ waiters' = Tail(waiters)
                        /\ locked /\ locked'
                        /\ timers' = Append(timers, Head(waiters))
                        /\ pc'[Head(waiters)] = "waiting"
                        /\ enterOrder' = enterOrder
                   ELSE /\ ~locked'
                        /\ UNCHANGED <<waiters, timers>>
       /\ \A q \in Procs :
             (pc[q] = "waiting" /\ pc'[q] # "waiting") =>
                 /\ timers # <<>> /\ Head(timers) = q
                 /\ timers' = Tail(timers)
                 /\ pc'[q] = "granted"
                 /\ \A p \in Procs : ~UnlocksNow(p)]_vars

\* C21 witness: a holder has called unlock() with a waiter queued: the lock
\* is still marked held, nobody is in the critical section, and the waiter
\* handed the lock is not yet resumed
C21_Witness ==
    /\ timers # <<>>
    /\ locked
    /\ InCS = {}
    /\ pc[Head(timers)] = "waiting"
    /\ \E p \in Procs : pc[p] = "done"

------------------------------------------------------------------------------
(* Spec: the protocol client.  triggerSpellcheck runs on a document, calls  *)
(* checkSpelling, and its completion callback sets the diagnostics and      *)
(* trims the cache.  aspell is a process of its own, joined to the client   *)
(* by the two pipes stdin and stdout; which words it reports is its choice. *)
(* An await continuation is a step of its own, taken at any later time.     *)

NCalls == 2

Calls == 1..NCalls

\* the words wordRegexp finds in each document, in text order
DocMatches(d) ==
    IF d = "d1" THEN << <<"a">>, <<"b">> >>
                ELSE << <<"b">>, <<"C", "b">>, <<"b">> >>

\* knownIgnore: three of its entries
knownIgnore == { <<"c", "b">>, <<"f", "s">>, <<"v", "m">> }

\* String.prototype.toLowerCase, on the letters of the documents
toLowerCase(w) ==
    [i \in DOMAIN w |-> CASE w[i] = "A" -> "a" [] w[i] = "B" -> "b"
                          [] w[i] = "C" -> "c" [] OTHER -> w[i]]

\* a plausible bug: the filter lets the words of knownBad through
wordsToCheck_sendsBad(matches) ==
    SelectSeq(hashKeys(matches),
              LAMBDA x : /\ toLowerCase(x) \notin knownIgnore
                         /\ x \notin Range(knownGood))

\* the filter chain of triggerSpellcheck: the words to send
wordsToCheck(matches) ==
    SelectSeq(hashKeys(matches),
              LAMBDA x : /\ toLowerCase(x) \notin knownIgnore
                         /\ x \notin Range(knownGood)
                         /\ x \notin BadWords(knownBad))

\* the line aspell prints when it starts; it is no error record
Banner == <<"@", NL>>

\* the suggestions aspell gives: "a, b"
Suggest == <<"a", ",", " ", "b">>

\* the error record of word w: "& w 2 0: a, b\n"
Record(w) == <<"&", " ">> \o w \o <<" ", "2", " ", "0", ":", " ">> \o Suggest \o <<NL>>

\* aspell's answer to a request line: the records of the words it rejects,
\* in the order of the line, then the empty line
RECURSIVE Records(_, _)
Records(ws, bad) ==
    IF Len(ws) = 0 THEN <<>>
    ELSE (IF Head(ws) \in bad THEN Record(Head(ws)) ELSE <<>>) \o Records(Tail(ws), bad)

Reply(ws, bad) == Records(ws, bad) \o <<NL>>

NoCall ==
    [doc |-> "", matches |-> <<>>, words |-> <<>>, ret |-> <<>>, newGoods |-> <<>>,
     cached |-> <<>>, origin |-> "", afterClose |-> FALSE]

\* the entries knownBad holds for the words of a call when it is made
cachedOf(words) == SelectSeq(knownBad, LAMBDA e : e.word \in Range(words))

\* activate(): the process is spawned, the listener attached, "!\n" written;
\* ids are the calls of checkSpelling to come
\* the statements of activate(), in the order of the code: the aspell
\* process is spawned, the AwaitLine is attached to its stdout, the line "!"
\* is written, and the event handlers and commands are registered
\* a plausible bug: the line "!" is written before the AwaitLine is attached
activateSteps_configFirst == <<"spawn", "config", "attach", "register">>

activateSteps == <<"spawn", "attach", "config", "register">>

activate(ids) ==
    /\ locked = FALSE
    /\ waiters = <<>>
    /\ timers = <<>>
    /\ pc = [c \in ids |-> "idle"]
    /\ lockOrder = <<>>
    /\ enterOrder = <<>>
    /\ late = {}
    /\ LinesInit
    /\ StreamInit
    /\ CacheInit
    /\ call = [c \in ids |-> NoCall]
    /\ stdin = <<"!", NL>>
    /\ stdout = Banner
    /\ writes = [c \in ids |-> 0]
    /\ unlocks = [c \in ids |-> 0]
    /\ termsRead = 0
    /\ answered = 0
    /\ closed = FALSE
    /\ log = activateSteps
    /\ owners = <<0>>
    /\ DebInit

Init == activate(Calls)

\* a plausible bug: a line that is no error record ends the batch
signalsDone_unparsed(line) == spellCheckLine(line) = <<>>

\* a plausible bug: a line without a letter ends the batch
signalsDone_noWord(line) == \A i \in DOMAIN line : line[i] \notin Letters

\* line == ""
signalsDone(line) == line = <<>>

\* a plausible bug: the empty list, too, waits for the lock
checkSpelling_locks(c, words) == lock(c)

\* a plausible bug: checkSpelling goes on to write without taking the lock
checkSpelling_unlocked(c, words) ==
    IF Len(words) = 0
      THEN /\ pc' = [pc EXCEPT ![c] = "then"]
           /\ UNCHANGED <<locked, waiters, lockOrder, late>>
      ELSE /\ pc' = [pc EXCEPT ![c] = "granted"]
           /\ lockOrder' = Append(lockOrder, c)
           /\ UNCHANGED <<locked, waiters, late>>

\* checkSpelling(words) up to its first suspension: an empty list returns
\* at once, any other calls aspellLock.lock()
checkSpelling(c, words) ==
    IF Len(words) = 0
      THEN /\ pc' = [pc EXCEPT ![c] = "then"]
           /\ UNCHANGED <<locked, waiters, lockOrder, late>>
      ELSE lock(c)

\* triggerSpellcheck(document), called by an event handler ("event") or a
\* command ("toggle"), up to the first suspension of checkSpelling: the
\* words are filtered against the cache and checkSpelling is called
triggerSpellcheck(d, origin) ==
    \E c \in DOMAIN pc :
        /\ pc[c] = "idle"
        /\ \A b \in 1..(c - 1) : pc[b] # "idle"
        /\ LET matches == DocMatches(d)
               words == wordsToCheck(matches)
           IN  /\ call' = [call EXCEPT ![c] = [doc |-> d, matches |-> matches,
                                               words |-> words, ret |-> <<>>,
                                               newGoods |-> <<>>,
                                               cached |-> cachedOf(words),
                                               origin |-> origin,
                                               afterClose |-> closed]]
               /\ checkSpelling(c, words)
        /\ UNCHANGED <<timers, enterOrder, lineVars, streamVars>>
        /\ UNCHANGED <<stdin, stdout, writes, unlocks, termsRead, answered, closed, log, owners>>

\* a call of triggerSpellcheck on document d, whatever made it
TriggerSpellcheck(d) ==
    /\ triggerSpellcheck(d, "event")
    /\ UNCHANGED <<debVars, cacheVars>>

\* checkSpelling resumes from  await aspellLock.lock(): it writes the request
\* line and asks for the first line of the answer
CheckWrite(c) ==
    /\ pc[c] = "granted"
    /\ enterOrder' = Append(enterOrder, c)
    /\ stdin' = stdin \o join(call[c].words) \o <<NL>>
    /\ writes' = [writes EXCEPT ![c] = @ + 1]
    /\ call' = [call EXCEPT ![c].ret = <<>>, ![c].newGoods = hashKeys(call[c].words)]
    /\ SetAL(getLine(AL, c))
    /\ pc' = [pc EXCEPT ![c] = "reading"]
    /\ UNCHANGED <<lockVars, lockOrder, late, streamVars, debVars, cacheVars>>
    /\ log' = Append(log, "batch")
    /\ UNCHANGED <<stdout, unlocks, termsRead, answered, closed, owners>>

\* the same resumption when aspell.stdin.write throws: the exception leaves
\* checkSpelling, which has no handler
CheckWriteThrows(c) ==
    /\ pc[c] = "granted"
    /\ enterOrder' = Append(enterOrder, c)
    /\ pc' = [pc EXCEPT ![c] = "threw"]
    /\ UNCHANGED <<lockVars, lockOrder, late, lineVars, streamVars, debVars, cacheVars, callVars>>

\* checkSpelling resumes from  await aspellLines.getLine()  with a line: the
\* empty line ends the batch (knownGood is updated, the lock released, the
\* result returned); any other line is parsed, recorded if it is an error
\* record, and the next line is asked for
ReadLine(c) ==
    /\ pc[c] = "reading"
    /\ c \in DOMAIN got
    /\ LET line == got[c]
           al == [AL EXCEPT !.got = [k \in DOMAIN got \ {c} |-> got[k]]]
           error == spellCheckLine(line)
       IN  IF signalsDone(line)
             THEN /\ knownGood' = assignGood(knownGood, call[c].newGoods)
                  /\ unlock
                  /\ unlocks' = [unlocks EXCEPT ![c] = @ + 1]
                  /\ termsRead' = termsRead + 1
                  /\ pc' = [pc EXCEPT ![c] = "then"]
                  /\ SetAL(al)
                  /\ UNCHANGED <<knownBad, call>>
             ELSE /\ IF error # <<>>
                       THEN /\ call' = [call EXCEPT
                                   ![c].newGoods = hashDelete(@, error[1].word),
                                   ![c].ret = Append(@, error[1])]
                            /\ knownBad' = setBad(knownBad, error[1])
                       ELSE UNCHANGED <<call, knownBad>>
                  /\ SetAL(getLine(al, c))
                  /\ UNCHANGED <<lockVars, pc, knownGood, unlocks, termsRead>>
    /\ UNCHANGED <<lockOrder, enterOrder, late, streamVars, debVars, spellDiagnostics, evicted>>
    /\ owners' = IF owners = <<>> THEN owners ELSE Tail(owners)
    /\ UNCHANGED <<stdin, stdout, writes, answered, closed, log>>

\* a plausible bug: the callback, too, folds the call's good words into
\* knownGood
thenCache_assigns(c) ==
    /\ knownGood' = assignGood(trimOneCache(knownGood), call[c].newGoods)
    /\ knownBad' = trimOneCache(knownBad)
    /\ evicted' = (evicted \/ Len(knownBad) > CACHE_LEN_GOAL)

\* what the completion callback does to the cache: trimCache(), only if the
\* call yielded errors
thenCache(c) ==
    IF Len(call[c].ret) > 0
      THEN trimCache
      ELSE UNCHANGED <<knownGood, knownBad, evicted>>

\* the completion callback of triggerSpellcheck: diagnostics for the words
\* of the document that knownBad holds, then the trim
ThenCallback(c) ==
    /\ pc[c] = "then"
    /\ call[c].doc \in Docs
    /\ spellDiagnostics' =
           [d \in DOMAIN spellDiagnostics \cup {call[c].doc} |->
               IF d = call[c].doc
                 THEN SelectSeq(call[c].matches, LAMBDA w : getBad(knownBad, w) # <<>>)
                 ELSE spellDiagnostics[d]]
    /\ thenCache(c)
    /\ pc' = [pc EXCEPT ![c] = "done"]
    /\ UNCHANGED <<lockVars, lockOrder, enterOrder, late, lineVars, streamVars, debVars, callVars>>

\* aspell reads a command line ("!"): terse mode, no answer
AspellCommand ==
    /\ ~closed
    /\ indexOf(stdin, NL) # -1
    /\ LET i == indexOf(stdin, NL)
       IN  /\ i >= 1
           /\ stdin[1] = "!"
           /\ stdin' = substringFrom(stdin, i + 1)
    /\ UNCHANGED <<lockVars, procVars, lineVars, streamVars, debVars, cacheVars>>
    /\ UNCHANGED <<call, stdout, writes, unlocks, termsRead, answered, closed, log, owners>>

\* the calls that have written a request line, in the order of the writes
Writers == SelectSeq(enterOrder, LAMBDA c : writes[c] = 1)

\* aspell reads a request line and answers it, rejecting the words bad
AspellReply(bad) ==
    /\ ~closed
    /\ indexOf(stdin, NL) # -1
    /\ LET i == indexOf(stdin, NL)
           ws == split(substring(stdin, 0, i))
       IN  /\ ~(i >= 1 /\ stdin[1] = "!")
           /\ bad \subseteq Range(ws)
           /\ stdin' = substringFrom(stdin, i + 1)
           /\ stdout' = stdout \o Reply(ws, bad)
           /\ owners' = owners \o [k \in 1..Len(SelectSeq(Reply(ws, bad), LAMBDA x : x = NL))
                                      |-> Writers[answered + 1]]
    /\ answered' = answered + 1
    /\ UNCHANGED <<lockVars, procVars, lineVars, streamVars, debVars, cacheVars>>
    /\ UNCHANGED <<call, writes, unlocks, termsRead, closed, log>>

\* a 'data' event of aspell.stdout carrying the first n characters waiting
AspellData(n) ==
    /\ n \in 1..Len(stdout)
    /\ SetAL(onData(AL, SubSeq(stdout, 1, n)))
    /\ stdout' = SubSeq(stdout, n + 1, Len(stdout))
    /\ UNCHANGED <<lockVars, procVars, streamVars, debVars, cacheVars>>
    /\ UNCHANGED <<call, stdin, writes, unlocks, termsRead, answered, closed, log, owners>>

\* a 'data' event carries at most MaxData characters
MaxData == 16

AllWords == UNION {Range(DocMatches(d)) : d \in Docs}

Next ==
    \/ \E d \in Docs : TriggerSpellcheck(d)
    \/ \E c \in Calls : CheckWrite(c)
    \/ \E c \in Calls : CheckWriteThrows(c)
    \/ \E c \in Calls : ReadLine(c)
    \/ \E c \in Calls : ThenCallback(c)
    \/ TimerFire
    \/ AspellCommand
    \/ \E bad \in SUBSET AllWords : AspellReply(bad)
    \/ \E n \in 1..MaxData : AspellData(n)

Spec == Init /\ [][Next]_vars

------------------------------------------------------------------------------
(* SpecClose: the protocol client with an aspell process that may exit.     *)

\* the aspell process exits: it reads and writes no more; what it has
\* written is still delivered, then its output stream is closed.  The
\* 'close' handler of activate shows a message and changes nothing.
AspellClose ==
    /\ ~closed
    /\ closed' = TRUE
    /\ UNCHANGED <<lockVars, procVars, lineVars, streamVars, debVars, cacheVars>>
    /\ UNCHANGED <<call, stdin, stdout, writes, unlocks, termsRead, answered, log, owners>>

NextClose ==
    \/ Next
    \/ AspellClose

SpecClose == Init /\ [][NextClose]_vars

------------------------------------------------------------------------------
(* SpecCheck: the protocol client with checkSpelling also called on its own, *)
(* on any word list, as well as through triggerSpellcheck.                  *)

\* the word lists checkSpelling is called with
WordLists == { <<>>, << <<"b">> >> }

\* a call checkSpelling(ws), up to its first suspension
CallCheckSpelling(ws) ==
    \E c \in Calls :
        /\ pc[c] = "idle"
        /\ \A b \in 1..(c - 1) : pc[b] # "idle"
        /\ call' = [call EXCEPT ![c] = [doc |-> "", matches |-> <<>>,
                                        words |-> ws, ret |-> <<>>,
                                        newGoods |-> <<>>,
                                        cached |-> cachedOf(ws),
                                        origin |-> "direct",
                                        afterClose |-> closed]]
        /\ checkSpelling(c, ws)
        /\ UNCHANGED <<timers, enterOrder, lineVars, streamVars, debVars, cacheVars>>
        /\ UNCHANGED <<stdin, stdout, writes, unlocks, termsRead, answered, closed, log, owners>>

NextCheck ==
    \/ Next
    \/ \E ws \in WordLists : CallCheckSpelling(ws)

SpecCheck == Init /\ [][NextCheck]_vars

------------------------------------------------------------------------------
(* Claims about checkSpelling *)

Returned(c) == pc[c] \in {"then", "done"}
Stopped(c) == pc[c] \in {"then", "done", "threw"}
Acquired(c) == c \in Range(enterOrder)

\* C3: checkSpelling releases the lock exactly once on every exit path:
\* a call that acquired aspellLock and has stopped running, by returning or
\* by an exception of the write, has called unlock() exactly once.
C3_UnlockOnEveryExit ==
    \A c \in Calls : (Stopped(c) /\ Acquired(c)) => unlocks[c] = 1

RECURSIVE SumTo(_, _)
SumTo(f, n) == IF n = 0 THEN 0 ELSE f[n] + SumTo(f, n - 1)
TotalWrites == SumTo(writes, NCalls)

\* the requests written whose terminator checkSpelling has not yet consumed
Outstanding == TotalWrites - termsRead

C4_State ==
    /\ \A c \in Calls : writes[c] <= 1
    /\ \A c \in Calls : writes[c] = 1 => Acquired(c)
    /\ \A c \in Calls : (Returned(c) /\ call[c].words # <<>>) => writes[c] = 1
    /\ Outstanding \in {0, 1}
    /\ termsRead <= answered
    /\ answered <= TotalWrites
    /\ Outstanding = 1 => \E c \in Calls : pc[c] = "reading" /\ writes[c] = 1

C4_Step ==
    \A c \in Calls :
        writes'[c] > writes[c] =>
            /\ pc[c] = "granted"
            /\ locked
            /\ Outstanding = 0
            /\ \A b \in Calls : pc[b] # "reading"

\* C4: request serialization: a call writes once, only as the holder of the
\* lock, and only when the terminators of all earlier requests have been
\* consumed by their callers; at most one request is outstanding at aspell.
C4_RequestSerialization == [](C4_State) /\ [][C4_Step]_vars

\* C4 witness: the second request is at aspell, written after the first
\* call consumed its terminator and returned its errors
C4_Witness ==
    /\ writes[2] = 1
    /\ pc[2] = "reading"
    /\ answered = 2
    /\ termsRead = 1
    /\ Returned(1)
    /\ call[1].ret # <<>>

\* C5: cache disjointness, last result wins: a word that a later check
\* classifies the other way is moved, so no word is in both knownGood and
\* knownBad.
C5_CacheDisjoint == Range(knownGood) \cap BadWords(knownBad) = {}

\* the step is one of the call that holds the lock (resumed from lock(),
\* unlock() not called)
ExecutedByHolder ==
    \E c \in Calls : pc[c] = "reading" /\ (pc'[c] # pc[c] \/ call'[c] # call[c])

CacheChanged == knownGood' # knownGood \/ knownBad' # knownBad

Inserted ==
    \/ ~(Range(knownGood') \subseteq Range(knownGood))
    \/ ~(Range(knownBad') \subseteq Range(knownBad))

Removed ==
    \/ ~(Range(knownGood) \subseteq Range(knownGood'))
    \/ ~(BadWords(knownBad) \subseteq BadWords(knownBad'))

ReturnsNow(c) == pc[c] = "reading" /\ pc'[c] = "then"

\* the words of the error records call c has parsed
RetWords(c) == {call[c].ret[i].word : i \in DOMAIN call[c].ret}

\* the last error record of word w in ret
LatestRecord(ret, w) ==
    LET s == SelectSeq(ret, LAMBDA e : e.word = w) IN s[Len(s)]

CallbackNow(c) == pc[c] = "then" /\ pc'[c] = "done"

\* C12: the cache bound is restored after an insertion of good words: when
\* the completion callback of a batch that was sent to aspell has run,
\* trimCache has run and knownGood holds at most CACHE_LEN_GOAL entries.
C12_BoundRestoredAfterBatch ==
    [][\A c \in Calls : (CallbackNow(c) /\ call[c].words # <<>>) =>
          Len(knownGood') <= CACHE_LEN_GOAL]_vars

\* C13 as stated: cached words cause no subprocess write: a checkSpelling
\* call made with a word for which knownBad holds an error entry writes
\* nothing to aspell and returns that entry.
C13_CachedCausesNoWrite ==
    \A c \in Calls :
        call[c].cached # <<>> =>
            /\ writes[c] = 0
            /\ (Returned(c) => call[c].ret = call[c].cached)

\* C13 as amended: the cache is consulted by triggerSpellcheck, not by
\* checkSpelling: triggerSpellcheck passes no word that knownBad or knownGood
\* holds, a call with no word left writes nothing, and the diagnostics of
\* the document show every word of it that knownBad holds; checkSpelling
\* itself writes every non-empty list it is given, cached words or not.
C13_CacheFilterInTrigger ==
    /\ [](\A c \in Calls :
            /\ (call[c].doc \in Docs => call[c].cached = <<>>)
            /\ ((pc[c] # "idle" /\ call[c].words = <<>>) => writes[c] = 0)
            /\ ((Returned(c) /\ call[c].words # <<>>) => writes[c] = 1))
    /\ [][\A c \in Calls :
            /\ (pc[c] = "idle" /\ pc'[c] # "idle" /\ call'[c].doc \in Docs) =>
                  Range(call'[c].words) \cap (Range(knownGood) \cup BadWords(knownBad)) = {}
            /\ CallbackNow(c) =>
                  \A w \in Range(call[c].matches) \cap BadWords(knownBad) :
                      w \in Range(spellDiagnostics'[call[c].doc])]_vars

\* C13 witness: a spellcheck of a document whose word b was recorded as an
\* error by an earlier call has completed without a write, and the
\* diagnostics of the document show b
C13_Witness ==
    /\ call[1].ret # <<>>
    /\ call[2].doc \in Docs
    /\ pc[2] = "done"
    /\ call[2].words = <<>>
    /\ writes[2] = 0
    /\ <<"b">> \in BadWords(knownBad)
    /\ <<"b">> \in Range(spellDiagnostics[call[2].doc])

\* the step in which call c is made
CalledNow(c) == pc[c] = "idle" /\ pc'[c] # "idle"

\* C14: checkSpelling([]) returns [] without any interaction: the call
\* returns in the step it is made, also while the lock is held; it never
\* calls aspellLock.lock(), writes nothing to aspell, asks AwaitLine for no
\* line, and leaves knownGood and knownBad unchanged.
C14_EmptyListNoInteraction ==
    /\ [](\A c \in Calls :
            (pc[c] # "idle" /\ call[c].words = <<>>) =>
                /\ Returned(c)
                /\ call[c].ret = <<>>
                /\ c \notin Range(lockOrder)
                /\ c \notin Range(waiters)
                /\ writes[c] = 0
                /\ unlocks[c] = 0
                /\ c \notin Range(awaiters)
                /\ c \notin DOMAIN got)
    /\ [][\A c \in Calls :
            (CalledNow(c) /\ call'[c].words = <<>>) =>
                /\ pc'[c] = "then"
                /\ UNCHANGED <<locked, waiters, timers, lockOrder>>
                /\ UNCHANGED <<stdin, awaiters, backlog, got, dataBacklog>>
                /\ UNCHANGED <<knownGood, knownBad>>]_vars

\* C14 witness: checkSpelling([]) was called on its own and has returned
\* while an earlier call holds the lock in the middle of its batch
C14_Witness ==
    /\ pc[1] = "reading"
    /\ locked
    /\ call[2].doc = ""
    /\ call[2].words = <<>>
    /\ pc[2] = "then"

\* the step in which call c resumes from getLine() with the line got[c]
Consumes(c) ==
    /\ c \in DOMAIN got
    /\ stdout' = stdout
    /\ (c \notin DOMAIN got' \/ backlog' # backlog)

\* C17: a malformed response line does not end the batch: a non-empty line
\* that is no error record changes neither the result nor the caches, and
\* the call, still holding the lock, asks for the next line; the read loop
\* ends with a line if and only if the line is empty.
C17_MalformedLineDiscarded ==
    [][\A c \in Calls :
          Consumes(c) =>
              /\ (got[c] # <<>> /\ spellCheckLine(got[c]) = <<>>) =>
                    /\ call'[c] = call[c]
                    /\ UNCHANGED <<knownBad, knownGood, locked>>
                    /\ pc'[c] = "reading"
                    /\ (c \in DOMAIN got' \/ c \in Range(awaiters'))
              /\ (pc'[c] # "reading" <=> got[c] = <<>>)]_vars

\* C25: response attribution: aspell answering each request line with error
\* records for words of that line and one empty line, and printing no other
\* empty line, every error entry a checkSpelling call returns has its word
\* among the words of the call, and every line a call consumes is a line of
\* the answer to its own request (or the banner aspell prints at its start),
\* whatever the interleaving of the calls.
C25_ResponseAttribution ==
    /\ [](\A c \in Calls : \A i \in DOMAIN call[c].ret :
              call[c].ret[i].word \in Range(call[c].words))
    /\ [][\A c \in Calls :
            Consumes(c) =>
                /\ owners # <<>>
                /\ Head(owners) \in {0, c}
                /\ (Head(owners) = 0 <=> got[c] = SubSeq(Banner, 1, Len(Banner) - 1))
                /\ \A k \in DOMAIN call'[c].ret \ DOMAIN call[c].ret :
                       Head(owners) = c]_vars

\* C25 witness: call 2 was made while call 1 held the lock; call 1 has
\* consumed the banner and its answer and returned an error entry, and the
\* lock is being handed to call 2
C25_Witness ==
    /\ pc[1] = "then"
    /\ call[1].ret # <<>>
    /\ pc[2] = "waiting"
    /\ timers = <<2>>
    /\ owners = <<>>

\* C17 witness: the first call to read has taken the line aspell prints at
\* its start, which is no error record, and after it an error record
C17_Witness ==
    /\ termsRead = 0
    /\ \E c \in Calls :
          /\ pc[c] = "reading"
          /\ call[c].ret # <<>>
          /\ c \in DOMAIN got
          /\ got[c] = <<>>

\* the output stream of aspell is closed: the process has exited and all it
\* wrote has been delivered
StreamClosed == closed /\ stdout = <<>>

\* an empty line is at hand for call c: resolved to it or in the backlog
TerminatorDelivered(c) ==
    \/ c \in DOMAIN got /\ got[c] = <<>>
    \/ <<>> \in Range(backlog)

\* call c has written its request and the stream closed before the empty
\* line of its answer was delivered
Doomed(c) == StreamClosed /\ pc[c] = "reading" /\ ~TerminatorDelivered(c)

\* C18: subprocess termination is fatal to the session: once the stream has
\* closed on a call that wrote its request and was not delivered the empty
\* line, that remains so in every later state: its pending getLine() stays
\* pending, the call does not return, aspellLock stays held, and every call
\* made after it with a non-empty word list stays waiting for the lock.
C18_CloseIsFatal ==
    /\ [](\A c \in Calls :
            Doomed(c) =>
                /\ locked
                /\ ~Returned(c)
                /\ \A k \in Calls :
                      (k > c /\ pc[k] # "idle" /\ call[k].words # <<>>) =>
                          pc[k] = "waiting")
    /\ [][\A c \in Calls :
            Doomed(c) =>
                /\ Doomed(c)'
                /\ (c \in Range(awaiters) => c \in Range(awaiters'))]_vars

\* C23: no checks after subprocess termination: once the 'close' event of
\* the subprocess has occurred, no checkSpelling call made later writes a
\* batch to the subprocess input.
C23_NoCheckAfterClose ==
    \A c \in Calls : call[c].afterClose => writes[c] = 0

\* C27: single line consumer: getLine() being called only by the holder of
\* aspellLock, AwaitLine has at most one suspended awaiter in every
\* reachable state, that awaiter is a call in its read loop, and there is
\* one only while aspellLock is held.
C27_SingleLineConsumer ==
    /\ Len(awaiters) <= 1
    /\ \A i \in DOMAIN awaiters : pc[awaiters[i]] = "reading"
    /\ awaiters # <<>> => locked

\* C27 witness: call 1 is suspended in getLine() holding the lock while
\* call 2 waits for the lock
C27_Witness ==
    /\ awaiters = <<1>>
    /\ locked
    /\ pc[2] = "waiting"

\* C18 witness: aspell exited before it answered the request of call 1,
\* whose getLine() is pending, and call 2 waits for the lock
C18_Witness ==
    /\ Doomed(1)
    /\ 1 \in Range(awaiters)
    /\ pc[2] = "waiting"
    /\ call[2].words # <<>>

------------------------------------------------------------------------------
(* SpecLive: Spec under the scheduling the event loop and a live aspell
   give: every scheduled callback and await continuation is eventually run
   (the continuation of  await aspellLock.lock()  either writes or meets an
   exception of the write), aspell eventually reads every line written to
   it and answers every request line, and its output eventually arrives in
   'data' events. *)

\* the continuation of  await aspellLock.lock()  in call c
ResumeFromLock(c) == CheckWrite(c) \/ CheckWriteThrows(c)

SpecLive ==
    /\ Spec
    /\ WF_vars(TimerFire)
    /\ \A c \in Calls : WF_vars(ResumeFromLock(c))
    /\ \A c \in Calls : WF_vars(ReadLine(c))
    /\ \A c \in Calls : WF_vars(ThenCallback(c))
    /\ WF_vars(AspellCommand)
    /\ WF_vars(\E bad \in SUBSET AllWords : AspellReply(bad))
    /\ WF_vars(\E n \in 1..MaxData : AspellData(n))

\* no checkSpelling call is pending: each is not made, has returned, or has
\* ended with an exception
NoCallPending == \A c \in Calls : pc[c] \in {"idle", "then", "done", "threw"}

\* C26: check liveness: aspell answering every request line and scheduled
\* callbacks being run, every checkSpelling call made eventually returns,
\* and whenever no call is pending aspellLock is free and has no waiter.
C26_CheckLiveness ==
    /\ \A c \in Calls : (pc[c] # "idle") ~> Returned(c)
    /\ [](NoCallPending => ~locked /\ waiters = <<>>)

------------------------------------------------------------------------------
(* SpecStart: the extension from the load of the module.  activate() runs
   its statements without yielding, so no handler and no 'data' event runs
   until it has returned; the aspell process runs beside it from its spawn. *)

InitStart ==
    /\ locked = FALSE
    /\ waiters = <<>>
    /\ timers = <<>>
    /\ pc = [c \in Calls |-> "idle"]
    /\ lockOrder = <<>>
    /\ enterOrder = <<>>
    /\ late = {}
    /\ LinesInit
    /\ StreamInit
    /\ CacheInit
    /\ call = [c \in Calls |-> NoCall]
    /\ stdin = <<>>
    /\ stdout = <<>>
    /\ writes = [c \in Calls |-> 0]
    /\ unlocks = [c \in Calls |-> 0]
    /\ termsRead = 0
    /\ answered = 0
    /\ closed = FALSE
    /\ log = <<>>
    /\ owners = <<>>
    /\ DebInit

\* activate() has returned
Activated == Len(log) >= Len(activateSteps)

\* the next statement of activate(): aspell prints its banner when spawned
ActivateStep ==
    /\ ~Activated
    /\ LET st == activateSteps[Len(log) + 1]
       IN  /\ log' = Append(log, st)
           /\ stdout' = IF st = "spawn" THEN Banner ELSE stdout
           /\ owners' = IF st = "spawn" THEN <<0>> ELSE owners
           /\ stdin' = IF st = "config" THEN stdin \o <<"!", NL>> ELSE stdin
    /\ UNCHANGED <<lockVars, procVars, lineVars, streamVars, debVars, cacheVars>>
    /\ UNCHANGED <<call, writes, unlocks, termsRead, answered, closed>>

NextStart ==
    \/ ActivateStep
    \/ ~Activated /\ AspellCommand
    \/ Activated /\ Next

SpecStart == InitStart /\ [][NextStart]_vars

\* the positions of event e in the log
At(e) == {i \in DOMAIN log : log[i] = e}

\* C24: startup ordering: the configuration line "!" is written to aspell
\* exactly once, by activate(), after the AwaitLine is attached to the
\* output of aspell and before the request line of any checkSpelling call.
C24_StartupOrdering ==
    /\ [](Cardinality(At("config")) <= 1)
    /\ [](Activated => Cardinality(At("config")) = 1)
    /\ [](\A i \in At("config") : \E j \in At("attach") : j < i)
    /\ [](\A i \in At("batch") : \E j \in At("config") : j < i)
    /\ [][Len(stdin') > Len(stdin) =>
            LET text == SubSeq(stdin', Len(stdin) + 1, Len(stdin'))
            IN  /\ log' = Append(log, IF text = <<"!", NL>> THEN "config" ELSE "batch")
                /\ text # <<"!", NL>> => "!" \notin Range(text)]_vars

\* C24 witness: activate() has returned and a checkSpelling call has
\* written its request line
C24_Witness ==
    /\ Activated
    /\ At("batch") # {}
    /\ \E c \in Calls : writes[c] = 1

------------------------------------------------------------------------------
(* SpecDeb: the trigger events and the Debouncer.  The spellcheck a trigger *)
(* starts is the subject of Spec; here the calls of triggerSpellcheck are   *)
(* counted per document.                                                    *)

InitDeb ==
    /\ locked = FALSE
    /\ waiters = <<>>
    /\ timers = <<>>
    /\ pc = <<>>
    /\ lockOrder = <<>>
    /\ enterOrder = <<>>
    /\ late = {}
    /\ LinesInit
    /\ StreamInit
    /\ CacheInit
    /\ CallInit
    /\ DebInit

\* the lock, the calls, the line queues and the pipes
pipeVars == <<lockVars, procVars, lineVars, streamVars, callVars>>

\* a call of triggerSpellcheck(document): it is counted, and followed
\* through checkSpelling where follow says so
callTriggerSpellcheck(d, origin, follow) ==
    /\ spellchecks' = [spellchecks EXCEPT ![d] = @ + 1]
    /\ IF follow THEN triggerSpellcheck(d, origin) ELSE UNCHANGED pipeVars

\* triggerSpellcheckIfEnabled(document), up to its await: an event on a
\* document that is not enabled is ignored; an event on the document of the
\* last event goes through the debouncer (dropped when it returns null);
\* an event on another document starts a spellcheck at once
triggerSpellcheckIfEnabled(d, follow) ==
    /\ events < MaxEvents
    /\ events' = events + 1
    /\ IF ~isUriEnabled(d)
         THEN /\ UNCHANGED <<waiting, bounceTimers, lastDocumentURI, spellchecks,
                             drops, window, startedInWindow, queueCalls>>
              /\ UNCHANGED pipeVars
         ELSE IF d = lastDocumentURI
           THEN /\ queue_or_bust(d)
                /\ drops' = IF waiting THEN drops \cup {<<d, Head(bounceTimers)>>}
                                       ELSE drops
                /\ window' = IF waiting THEN window ELSE d
                /\ startedInWindow' = IF waiting THEN startedInWindow ELSE 0
                /\ UNCHANGED <<lastDocumentURI, spellchecks>>
                /\ UNCHANGED pipeVars
           ELSE /\ lastDocumentURI' = d
                /\ callTriggerSpellcheck(d, "event", follow)
                /\ startedInWindow' = IF window = d THEN startedInWindow + 1
                                                    ELSE startedInWindow
                /\ UNCHANGED <<waiting, bounceTimers, drops, window, queueCalls>>
    /\ UNCHANGED <<resumed, enabledAllDocuments, enabledDocuments, toggles>>
    /\ UNCHANGED cacheVars

TriggerSpellcheckIfEnabled(d) == triggerSpellcheckIfEnabled(d, FALSE)

\* a plausible bug: the timer callback resolves the promise but leaves
\* waiting set
BounceTimerFire_keepsWaiting ==
    /\ bounceTimers # <<>>
    /\ bounceTimers' = Tail(bounceTimers)
    /\ resumed' = Append(resumed, Head(bounceTimers))
    /\ window' = "none"
    /\ startedInWindow' = 0
    /\ UNCHANGED <<waiting, lastDocumentURI, enabledAllDocuments, enabledDocuments,
                   spellchecks, events, toggles, drops, queueCalls>>
    /\ UNCHANGED <<lockVars, procVars, lineVars, streamVars, cacheVars, callVars>>

\* the timer of queue_or_bust fires after bounceTime: waiting becomes false
\* and the promise is resolved
BounceTimerFire ==
    /\ bounceTimers # <<>>
    /\ waiting' = FALSE
    /\ bounceTimers' = Tail(bounceTimers)
    /\ resumed' = Append(resumed, Head(bounceTimers))
    /\ window' = "none"
    /\ startedInWindow' = 0
    /\ UNCHANGED <<lastDocumentURI, enabledAllDocuments, enabledDocuments,
                   spellchecks, events, toggles, drops, queueCalls>>
    /\ UNCHANGED <<lockVars, procVars, lineVars, streamVars, cacheVars, callVars>>

\* triggerSpellcheckIfEnabled resumes from  await p: it runs the spellcheck
\* on its own document
triggerAfterBounce(follow) ==
    /\ resumed # <<>>
    /\ resumed' = Tail(resumed)
    /\ callTriggerSpellcheck(Head(resumed), "event", follow)
    /\ UNCHANGED <<waiting, bounceTimers, lastDocumentURI, enabledAllDocuments,
                   enabledDocuments, events, toggles, drops, window, startedInWindow,
                   queueCalls>>
    /\ UNCHANGED cacheVars

TriggerAfterBounce == triggerAfterBounce(FALSE)

\* toggleSpellcheckCommand on the editor showing d
toggleSpellcheckCommand(d, follow) ==
    /\ toggles < MaxToggles
    /\ toggles' = toggles + 1
    /\ IF d \notin enabledDocuments
         THEN /\ enabledDocuments' = enabledDocuments \cup {d}
              /\ callTriggerSpellcheck(d, "toggle", follow)
              /\ UNCHANGED spellDiagnostics
         ELSE /\ enabledDocuments' = enabledDocuments \ {d}
              /\ spellDiagnostics' = [u \in DOMAIN spellDiagnostics \ {d} |-> spellDiagnostics[u]]
              /\ UNCHANGED spellchecks
              /\ UNCHANGED pipeVars
    /\ UNCHANGED <<waiting, bounceTimers, resumed, lastDocumentURI, enabledAllDocuments,
                   events, drops, window, startedInWindow, queueCalls>>
    /\ UNCHANGED <<knownGood, knownBad, evicted>>

ToggleSpellcheckCommand(d) == toggleSpellcheckCommand(d, FALSE)

\* toggleSpellcheckAllCommand on the editor showing d
toggleSpellcheckAllCommand(d, follow) ==
    /\ toggles < MaxToggles
    /\ toggles' = toggles + 1
    /\ enabledAllDocuments' = ~enabledAllDocuments
    /\ IF ~enabledAllDocuments
         THEN /\ callTriggerSpellcheck(d, "toggle", follow)
              /\ UNCHANGED cacheVars
         ELSE /\ spellDiagnostics' = [u \in DOMAIN spellDiagnostics \cap enabledDocuments
                                        |-> spellDiagnostics[u]]
              /\ trimCache
              /\ UNCHANGED spellchecks
              /\ UNCHANGED pipeVars
    /\ UNCHANGED <<waiting, bounceTimers, resumed, lastDocumentURI, enabledDocuments,
                   events, drops, window, startedInWindow, queueCalls>>

ToggleSpellcheckAllCommand(d) == toggleSpellcheckAllCommand(d, FALSE)

NextDeb ==
    \/ \E d \in Docs : TriggerSpellcheckIfEnabled(d)
    \/ BounceTimerFire
    \/ TriggerAfterBounce
    \/ \E d \in Docs : ToggleSpellcheckCommand(d)
    \/ \E d \in Docs : ToggleSpellcheckAllCommand(d)

SpecDeb == InitDeb /\ [][NextDeb]_vars

------------------------------------------------------------------------------
(* Claims about the coalescing trigger *)

\* C7: a dropped trigger is covered by a pending cycle for the same target:
\* whenever an event for document D is dropped because queue_or_bust()
\* returned null, the continuation pending at that moment belongs to D.
C7_DroppedIsCovered == \A p \in drops : p[1] = p[2]

\* C8: rate limit per target: between a successful queue_or_bust() made for
\* document D and the expiry of its timer, triggerSpellcheckIfEnabled starts
\* at most one spellcheck for D.
C8_AtMostOnePerWindow == startedInWindow <= 1

\* C15: Debouncer double trigger: a queue_or_bust() call made while the
\* timer of an earlier successful call is pending returns null and changes
\* nothing; a call made when that timer has fired returns a promise (waiting
\* becomes true and one timer is pending).
C15_DoubleTrigger ==
    /\ [](waiting <=> bounceTimers # <<>>)
    /\ [][queueCalls' # queueCalls =>
            IF bounceTimers # <<>>
              THEN UNCHANGED <<waiting, bounceTimers, resumed, spellchecks>>
              ELSE waiting' /\ Len(bounceTimers') = 1]_vars

\* the step that starts a debounce cycle, and the step of its timer callback
CycleStarts == Len(bounceTimers') > Len(bounceTimers)
CycleEnds == Len(bounceTimers') < Len(bounceTimers)

\* C22: Debouncer cycle: a cycle starts only when waiting is false, and
\* sets waiting; waiting stays true until the timer of the cycle fires; the
\* timer callback sets waiting false and resolves the promise of the cycle,
\* once; at most one promise is pending at any time.
C22_DebouncerCycle ==
    /\ [](Len(bounceTimers) <= 1)
    /\ [][/\ CycleStarts => ~waiting /\ waiting' /\ UNCHANGED resumed
          /\ (waiting /\ ~waiting') => CycleEnds
          /\ CycleEnds => /\ ~waiting'
                          /\ bounceTimers' = Tail(bounceTimers)
                          /\ resumed' = Append(resumed, Head(bounceTimers))
          /\ Len(resumed') > Len(resumed) => CycleEnds]_vars

\* C22 witness: the timer of a cycle has fired: waiting is false again and
\* the promise of the cycle is resolved, its continuation not yet run
C22_Witness ==
    /\ ~waiting
    /\ bounceTimers = <<>>
    /\ Len(resumed) = 1
    /\ queueCalls >= 1

\* C15 witness: three calls of queue_or_bust(): one was dropped inside a
\* cool-down, and one succeeded after the timer of an earlier one had fired
C15_Witness ==
    /\ queueCalls = 3
    /\ drops # {}
    /\ resumed # <<>>
    /\ waiting

------------------------------------------------------------------------------
(* SpecExt: the extension as a whole: the trigger events, the Debouncer and *)
(* the commands of SpecDeb, each call of triggerSpellcheck now starting a   *)
(* checkSpelling call of the protocol client of Spec (follow = TRUE).       *)

\* the calls of checkSpelling followed in SpecExt
NExtCalls == 3

ExtCalls == 1..NExtCalls

InitExt == activate(ExtCalls)

\* a 'data' event of aspell.stdout carrying all that is waiting
AspellDataAll == AspellData(Len(stdout))

\* the trigger events and the commands followed in SpecExt
MaxExtEvents == 3
MaxExtToggles == 1

OnDocumentEvent(d) ==
    /\ events < MaxExtEvents
    /\ triggerSpellcheckIfEnabled(d, TRUE)

AfterBounce == triggerAfterBounce(TRUE)

OnToggle(d) ==
    /\ toggles < MaxExtToggles
    /\ toggleSpellcheckCommand(d, TRUE)

OnToggleAll(d) ==
    /\ toggles < MaxExtToggles
    /\ toggleSpellcheckAllCommand(d, TRUE)

NextExt ==
    \/ \E d \in Docs : OnDocumentEvent(d)
    \/ BounceTimerFire
    \/ AfterBounce
    \/ \E d \in Docs : OnToggle(d)
    \/ \E d \in Docs : OnToggleAll(d)
    \/ \E c \in ExtCalls : CheckWrite(c)
    \/ \E c \in ExtCalls : CheckWriteThrows(c)
    \/ \E c \in ExtCalls : ReadLine(c)
    \/ \E c \in ExtCalls : ThenCallback(c)
    \/ TimerFire
    \/ AspellCommand
    \/ \E bad \in SUBSET AllWords : AspellReply(bad)
    \/ AspellDataAll

SpecExt == InitExt /\ [][NextExt]_vars

\* SpecToggle: the extension with the per-document command as its only
\* command (enabledAllDocuments stays false), taken up to MaxToggles times
OnToggleDocument(d) == toggleSpellcheckCommand(d, TRUE)

NextToggle ==
    \/ \E d \in Docs : OnDocumentEvent(d)
    \/ BounceTimerFire
    \/ AfterBounce
    \/ \E d \in Docs : OnToggleDocument(d)
    \/ \E c \in ExtCalls : CheckWrite(c)
    \/ \E c \in ExtCalls : CheckWriteThrows(c)
    \/ \E c \in ExtCalls : ReadLine(c)
    \/ \E c \in ExtCalls : ThenCallback(c)
    \/ TimerFire
    \/ AspellCommand
    \/ \E bad \in SUBSET AllWords : AspellReply(bad)
    \/ AspellDataAll

SpecToggle == InitExt /\ [][NextToggle]_vars

------------------------------------------------------------------------------
(* Claims about the extension as a whole *)

\* C28: no diagnostics for a disabled document: once toggleSpellcheckCommand
\* has disabled document D and deleted its diagnostics, D has no diagnostics
\* until it is enabled again, whatever spellcheck of D was pending at the
\* toggle.
C28_NoDiagnosticsWhenDisabled ==
    \A d \in Docs :
        (d \in DOMAIN spellDiagnostics /\ spellDiagnostics[d] # <<>>) => isUriEnabled(d)

\* checkSpelling call c has been called and has not returned
InFlight(c) == pc[c] \in {"waiting", "granted", "reading"}

\* C19: no overlapping batches for one target: no two checkSpelling calls
\* that come from trigger events on the same document are in flight
\* together.
C19_NoOverlapPerDocument ==
    \A c, k \in ExtCalls :
        (/\ c # k
         /\ InFlight(c) /\ InFlight(k)
         /\ call[c].origin = "event" /\ call[k].origin = "event")
            => call[c].doc # call[k].doc

------------------------------------------------------------------------------
(* SpecTrim: trimCache() on any caches, in the revision of                  *)
(* src/src/extension.ts (object hashes) and in the revision that keeps      *)
(* knownGood in a Set and knownBad in a Map (src/unnamed/part_001 37-38,    *)
(* 88-108).  A Set is the sequence of its elements and a Map the sequence   *)
(* of its values, each in insertion order; the key of a knownBad value is   *)
(* its word.                                                                *)

\* the caches hold at most MaxCache entries before the trim
MaxCache == 3

CacheWords == { <<"a">>, <<"b">>, <<"C", "b">> }

\* the sequences of at most n distinct elements of S
RECURSIVE Arrangements(_, _)
Arrangements(S, n) ==
    IF n = 0 THEN {<<>>}
    ELSE LET A == Arrangements(S, n - 1)
         IN  A \cup UNION {{Append(s, x) : x \in S \ Range(s)} :
                            s \in {t \in A : Len(t) = n - 1}}

\* what a callback or delete() is handed: a string or an object
Str(w) == [type |-> "string", v |-> w]
Obj(e) == [type |-> "object", v |-> e]

\* the key comparison of Set and Map
SameValueZero(x, y) == x.type = y.type /\ x.v = y.v

\* the first argument of the callback of cache.forEach, per entry: the
\* element of a Set; the value of a Map, its key being the second argument
forEach(cache, kind) ==
    [i \in DOMAIN cache |-> IF kind = "Set" THEN Str(cache[i]) ELSE Obj(cache[i])]

\* the key under which an entry is held: the element of a Set, the word of
\* a value of knownBad
keyOf(e, kind) == IF kind = "Set" THEN Str(e) ELSE Str(e.word)

\* toDelete.forEach((x) => cache.delete(x)): delete(x) removes the entry
\* whose key is x, if there is one
deleteAll(cache, toDelete, kind) ==
    SelectSeq(cache, LAMBDA e : \A i \in DOMAIN toDelete :
                                   ~SameValueZero(keyOf(e, kind), toDelete[i]))

\* trimOneCache(cache) of the Set/Map revision, cache a Set or a Map: the
\* first size - CACHE_LEN_GOAL first arguments of cache.forEach are
\* collected and deleted
trimOneCacheSized(cache, kind) ==
    IF Len(cache) <= CACHE_LEN_GOAL THEN cache
    ELSE deleteAll(cache,
                   SubSeq(forEach(cache, kind), 1, Len(cache) - CACHE_LEN_GOAL),
                   kind)

\* trimCache() of the Set/Map revision
trimCacheSetMap ==
    /\ knownGood' = trimOneCacheSized(knownGood, "Set")
    /\ knownBad' = trimOneCacheSized(knownBad, "Map")
    /\ evicted' = (evicted \/ knownGood' # knownGood \/ knownBad' # knownBad)

\* any caches: knownGood any words, knownBad any words with their entries
InitTrim ==
    /\ locked = FALSE
    /\ waiters = <<>>
    /\ timers = <<>>
    /\ pc = <<"start">>
    /\ lockOrder = <<>>
    /\ enterOrder = <<>>
    /\ late = {}
    /\ LinesInit
    /\ StreamInit
    /\ CallInit
    /\ DebInit
    /\ spellDiagnostics = <<>>
    /\ evicted = FALSE
    /\ knownGood \in Arrangements(CacheWords, MaxCache)
    /\ \E ws \in Arrangements(CacheWords, MaxCache) :
          knownBad = [i \in DOMAIN ws |-> [word |-> ws[i], suggestions |-> split(Suggest)]]

\* trimCache() of src/src/extension.ts runs
TrimObjectHash ==
    /\ pc = <<"start">>
    /\ pc' = <<"objectHash">>
    /\ trimCache
    /\ UNCHANGED <<lockVars, lockOrder, enterOrder, late, lineVars, streamVars, debVars,
                   callVars, spellDiagnostics>>

\* trimCache() of the Set/Map revision runs
TrimSetMap ==
    /\ pc = <<"start">>
    /\ pc' = <<"setMap">>
    /\ trimCacheSetMap
    /\ UNCHANGED <<lockVars, lockOrder, enterOrder, late, lineVars, streamVars, debVars,
                   callVars, spellDiagnostics>>

NextTrim ==
    \/ TrimObjectHash
    \/ TrimSetMap

SpecTrim == InitTrim /\ [][NextTrim]_vars

\* C20: the postcondition of trimCache in every revision: after trimCache()
\* has returned, knownGood and knownBad each hold at most CACHE_LEN_GOAL
\* entries, with object hashes and with a Set and a Map.
C20_TrimPostcondition ==
    pc # <<"start">> =>
        /\ Len(knownGood) <= CACHE_LEN_GOAL
        /\ Len(knownBad) <= CACHE_LEN_GOAL

====
